---- MODULE Spec2Model ----
(***************************************************************************)
(* mvis2list: reconstruction of MVIS listing files from hadock archive     *)
(* files.  The archive files are read as one stream of 64-byte frames by   *)
(* fileReader.Read (driven by io.ReadFull); the stream is consumed by      *)
(*   dumpFiles  + mvis.Write       (streaming output, truncate/seek),      *)
(*   listBlocks                    (report pass),                          *)
(*   prepare    + mvis.writeBlock  (pre-sized buffer, running offset),     *)
(*   prepare    + mvis.writeBlock  (pre-sized buffer, absolute offset).    *)
(* NewReader builds the list of archive files from the paths given.        *)
(***************************************************************************)
EXTENDS Integers, Sequences, FiniteSets, TLC

\* ------------------------------------------------------------ constants
LineSize == 64
MilFlag == 65534
FileFlag == 65535
counterLimit == 32768
counterMask == counterLimit - 1
null == 0
Space == 32
PayloadSize == LineSize - 2

\* ------------------------------------------------------------ bounds
\* the number of frames of the archive file, when the stream is one archive file
\* of whole frames
MaxChunks == 4
\* the number of archive files of a set of several, and the number of chunks
\* (frames or partial frames) they hold in all
MaxFiles == 2
MaxFileChunks == 3
MaxPaths == 3
MaxCounter == 5

\* ------------------------------------------------------------ bytes
Min(a, b) == IF a < b THEN a ELSE b
Max(a, b) == IF a > b THEN a ELSE b

Rep(b, k) == [i \in 1..k |-> b]

\* binary.BigEndian.Uint16 / Uint32 of the first bytes of bs
Uint16(bs) == bs[1] * 256 + bs[2]
Uint32(bs) == ((bs[1] * 256 + bs[2]) * 256 + bs[3]) * 256 + bs[4]

\* a Write that trims nothing
TrimNone(bs) == bs

\* bytes.TrimRight(bs, "\x00")
TrimRight(bs) ==
    LET nz == {i \in 1..Len(bs) : bs[i] # null}
    IN  IF nz = {} THEN <<>>
        ELSE SubSeq(bs, 1, CHOOSE i \in nz : \A j \in nz : j <= i)

\* bytes.Trim(bs, "\x00")
Trim(bs) ==
    LET nz == {i \in 1..Len(bs) : bs[i] # null}
    IN  IF nz = {} THEN <<>>
        ELSE SubSeq(bs, CHOOSE i \in nz : \A j \in nz : i <= j,
                        CHOOSE i \in nz : \A j \in nz : j <= i)

\* uint16 subtraction
Sub16(a, b) == (a - b + 65536) % 65536

\* a difference of counters that is not masked
AndMaskNone(x) == x

\* x & counterMask, counterMask = 2^15 - 1
AndMask(x) == x % counterLimit

\* diff := (s - last) & counterMask
Diff(s, last) == AndMask(Sub16(s, last))

\* the guard of the gap branch: s != diff && diff > 1
IsGap(s, diff) == s # diff /\ diff > 1

\* a Write that takes no frame for a duplicate
IsDuplicateNever(s, last) == FALSE

\* the duplicate test of mvis.Write and mvis.writeBlock: s == m.last
IsDuplicate(s, last) == s = last

\* a Read that takes no frame for an idle frame
IsIdleNever(errnil, p) == FALSE

\* the idle test of fileReader.Read: err == nil && p == MilFlag
IsIdle(errnil, p) == errnil /\ p = MilFlag

\* ------------------------------------------------------------ frames
BE16(v) == <<v \div 256, v % 256>>
BE32(v) == <<v \div 16777216, (v \div 65536) % 256, (v \div 256) % 256, v % 256>>

DataFrame(c, payload) == BE16(c) \o payload
FileFrame(sz, nm) == BE16(FileFlag) \o BE32(sz) \o nm \o Rep(null, LineSize - 6 - Len(nm))

NameX == <<88>>
NameY == <<89>>

\* a frame of an archive file, by what it holds: its tag c; for a sentinel the
\* size and the name; for a data frame the payload, PayloadSize - z bytes b
\* followed by z null bytes
FileDesc(sz, nm) == [c |-> FileFlag, size |-> sz, name |-> nm, b |-> null, z |-> 0]
DataDesc(c, b, z) == [c |-> c, size |-> 0, name |-> <<>>, b |-> b, z |-> z]

\* the bytes of the frame
Bytes(d) ==
    IF d.c = FileFlag THEN FileFrame(d.size, d.name)
    ELSE DataFrame(d.c, [i \in 1..PayloadSize |-> IF i <= PayloadSize - d.z THEN d.b ELSE null])

\* the payload of a data frame
Payload(d) == [i \in 1..PayloadSize |-> IF i <= PayloadSize - d.z THEN d.b ELSE null]

\* the frames the archive files are made of
FX == FileDesc(2 * PayloadSize, NameX)
FY == FileDesc(3 * PayloadSize, NameY)
F0 == DataDesc(0, 65, 0)
F1 == DataDesc(1, 66, 0)
F2 == DataDesc(2, 67, 2)
FMax == DataDesc(counterMask, 68, 0)
FBad == DataDesc(counterLimit, 69, 0)
FIdle == DataDesc(MilFlag, null, 0)
\* a later sentinel of the name of FX that declares another size
FX2 == FileDesc(PayloadSize, NameX)
Pool == {FX, FX2, FY, F0, F1, F2, FMax, FBad, FIdle}

\* the partial frames an archive file may end with: <<frame, length>>
Tails == { <<F0, 1>>, <<FIdle, 2>>, <<F1, LineSize - 1>> }

\* what the file system hands to one call of os.File.Read
NoExt == [k |-> "none", f |-> FIdle, len |-> 0]
EofExt == [k |-> "eof", f |-> FIdle, len |-> 0]
FrameExt(d) == [k |-> "frame", f |-> d, len |-> LineSize]
TailExt(t) == [k |-> "tail", f |-> t[1], len |-> t[2]]
Exts == {EofExt} \cup {FrameExt(d) : d \in Pool} \cup {TailExt(t) : t \in Tails}
ExtBytes(e) ==
    IF e.k = "frame" THEN Bytes(e.f)
    ELSE IF e.k = "tail" THEN SubSeq(Bytes(e.f), 1, e.len)
    ELSE <<>>

\* the frames tried with one archive file, and with a set of several
FramesOf(sev) == IF sev THEN {FX, F0, F1, FIdle} ELSE Pool

\* f.file == nil
NoFile == 0
\* curr == nil
NoMvis ==
    [nil |-> TRUE, Name |-> <<>>, Size |-> 0, Blocks |-> 0, Bytes |-> 0, last |-> 0,
     pos |-> 0, digest |-> <<>>, open |-> FALSE]

VARIABLES
    several,   \* the stream is a set of several archive files, not one of whole frames
    mode,      \* which consumer main runs: "dump", "list", "buffer", "absolute"
    zero,      \* the -zero flag (the filler is null instead of 0x20)
    pc,        \* "run", "done", "error" (log.Fatalln) or "panic"
    err,       \* the error the run ended with
    f_ps,      \* fileReader.ps: the archive files still to open
    f_file,    \* fileReader.file: the open archive file, or NoFile
    fbuf,      \* bytes of the open archive file known and not yet read
    feof,      \* the open archive file is known to end after fbuf
    body,      \* the buffer io.ReadFull fills
    n,         \* the number of bytes io.ReadFull has put in body
    hist,      \* what the archive files held, in the order it was read
    out,       \* the frames io.ReadFull returned to the consumer, in order
    curr,      \* dumpFiles: the assembler being written, or NoMvis
    fs,        \* the output files: name -> [size, data]
    prev,      \* listBlocks
    missing,   \* listBlocks
    count,     \* listBlocks
    size,      \* listBlocks
    buffer,    \* prepare: name -> mvis
    name,      \* prepare: the name of the last sentinel
    ps,        \* NewReader: the paths given to main
    keep,      \* NewReader: the -keep flag
    xs,        \* NewReader: the paths of the archive files to read
    meta,      \* the -meta flag
    metas,     \* dumpFiles: the metadata files written, in order
    handles,   \* dumpFiles: the names of the output files that are open
    fail,      \* the file system operation that failed in the last step, or "none"
    d_s,       \* the counter s of a frame
    d_last,    \* a last-seen counter
    d_diff,    \* diff := (s - last) & counterMask, or NoDiff before it is computed
    opened     \* the archive files os.Open has opened and nothing has closed

readerVars == <<f_ps, f_file, fbuf, feof, body, n, hist, out, opened>>
dumpVars == <<curr, fs, metas, handles>>
listVars == <<prev, missing, count, size>>
prepVars == <<buffer, name>>
newVars == <<ps, keep, xs>>
diffVars == <<d_s, d_last, d_diff>>
vars == <<several, mode, zero, meta, pc, err, fail, readerVars, dumpVars, listVars, prepVars,
          newVars, diffVars>>

\* ------------------------------------------------------------ archive files
\* os.File.Read(bs), len(bs) = L, on a regular file: min(L, bytes left) bytes, or
\* io.EOF when none is left.  e is what the file holds next when that is not yet
\* known (a frame, a partial frame that ends the file, or the end of the file).
FileReadOf(b1, k, e1) ==
    [n |-> k, eof |-> (k = 0),
     data |-> IF k = Len(b1) THEN b1 ELSE SubSeq(b1, 1, k),
     buf |-> IF k = Len(b1) THEN <<>> ELSE SubSeq(b1, k + 1, Len(b1)),
     feof |-> e1]

FileReadIn(b1, L, e1) == FileReadOf(b1, Min(L, Len(b1)), e1)

FileRead(buf, eof, L, e) ==
    IF Len(buf) >= L \/ eof THEN FileReadIn(buf, L, eof)
    ELSE FileReadIn(IF Len(buf) = 0 THEN ExtBytes(e) ELSE buf \o ExtBytes(e), L,
                    e.k \in {"tail", "eof"})

\* what the file system may be asked for by the next os.File.Read
MaxOf(sev) == IF sev THEN MaxFileChunks ELSE MaxChunks

Chunks == Len(SelectSeq(hist, LAMBDA h : h.k # "eof"))

ExtOK(e) ==
    IF f_file = NoFile \/ Len(fbuf) >= LineSize - n \/ feof THEN e = NoExt
    ELSE /\ e \in Exts
         /\ e.k = "frame" => e.f \in FramesOf(several)
         /\ e.k = "tail" => several
         /\ e.k \in {"frame", "tail"} => Chunks < MaxOf(several)

\* openFile on the next archive file, called when the open one is at its end, may
\* fail (os.Open, a short file, another magic)
OpenOK(e) ==
    IF Len(f_ps) > 0 /\ (e.k = "eof" \/ (feof /\ Len(fbuf) = 0)) THEN BOOLEAN ELSE {TRUE}

\* a Read that leaves body as it was
BodyStale(r) == body

\* body after os.File.Read has put r.n bytes in bs = body[n:]
BodyAfter(r) ==
    IF r.n = 0 THEN body
    ELSE IF r.n = LineSize THEN r.data
    ELSE [i \in 1..LineSize |-> IF i > n /\ i <= n + r.n THEN r.data[i - n] ELSE body[i]]

\* fileReader.Read after n, err := f.file.Read(bs): r is what the file gave, b1 the
\* buffer afterwards
ReadTail(r, b1, ok) ==
    LET rd == [n |-> 0, err |-> "EOF", panic |-> FALSE, ps |-> f_ps, file |-> f_file,
               body |-> b1, buf |-> r.buf, feof |-> r.feof, failed |-> FALSE]
    IN  \* binary.BigEndian.Uint16(bs) needs two bytes
        IF LineSize - n < 2 THEN [rd EXCEPT !.panic = TRUE]
        ELSE IF IsIdle(~r.eof, b1[n + 1] * 256 + b1[n + 2]) THEN [rd EXCEPT !.err = "nil"]
        ELSE IF r.eof THEN
            IF Len(f_ps) > 0 THEN
                IF ok THEN [rd EXCEPT !.err = "nil", !.file = Head(f_ps),
                                      !.ps = Tail(f_ps), !.buf = <<>>, !.feof = FALSE]
                \* the absolute-offset version drops the error of openFile
                ELSE IF mode = "absolute"
                THEN [rd EXCEPT !.err = "nil", !.file = NoFile, !.ps = Tail(f_ps),
                                !.buf = <<>>, !.feof = FALSE, !.failed = TRUE]
                ELSE [rd EXCEPT !.err = "open", !.file = NoFile, !.failed = TRUE]
            ELSE [rd EXCEPT !.file = NoFile]
        ELSE [rd EXCEPT !.n = r.n, !.err = "nil"]

ReadFile(r, ok) == ReadTail(r, BodyAfter(r), ok)

\* fileReader.Read(bs) with bs = body[n:].  ok: openFile succeeds on the next file.
Read(e, ok) ==
    IF Len(f_ps) = 0 /\ f_file = NoFile
    THEN [n |-> 0, err |-> "EOF", panic |-> FALSE, ps |-> f_ps, file |-> f_file,
          body |-> body, buf |-> fbuf, feof |-> feof, failed |-> FALSE]
    \* Read on a nil *os.File: os.ErrInvalid
    ELSE IF f_file = NoFile
    THEN [n |-> 0, err |-> "invalid argument", panic |-> LineSize - n < 2, ps |-> f_ps,
          file |-> f_file, body |-> body, buf |-> fbuf, feof |-> feof, failed |-> FALSE]
    ELSE ReadFile(FileRead(fbuf, feof, LineSize - n, e), ok)

\* an io.ReadFull that calls Read again whatever the error of the last call
ReadFullRetry(rd) ==
    IF rd.panic THEN "panic"
    ELSE IF n + rd.n >= LineSize THEN "frame"
    ELSE "more"

\* one call of Read inside io.ReadFull(r, body): "frame" when body is full, "more"
\* when ReadFull calls Read again, "EOF" at the end of the stream, "error" otherwise
ReadFull(rd) ==
    IF rd.panic THEN "panic"
    ELSE IF n + rd.n >= LineSize THEN "frame"
    ELSE IF rd.err = "nil" THEN "more"
    ELSE IF rd.err = "EOF" /\ n + rd.n = 0 THEN "EOF"
    ELSE "error"

\* the failure of openFile in the call, if any
ReadFail(rd) == IF rd.failed THEN "open" ELSE "none"

ReadErr(rd) == IF rd.err = "EOF" THEN "unexpected EOF" ELSE rd.err

\* the reader's variables after the call; fresh: the caller allocates body anew
\* for every frame
ZeroBody == Rep(null, LineSize)

\* the archive files left open by the call.  At the end of a file that is not the
\* last one f.file.Close() precedes openFile; an openFile that fails has opened no
\* file (os.Open fails) or leaves the file it opened (a short file, another magic)
OpenedAfter(rd) ==
    IF rd.failed THEN {opened \ {f_file}, (opened \ {f_file}) \cup {Head(f_ps)}}
    ELSE IF rd.file # f_file /\ rd.file # NoFile
    THEN {(opened \ {f_file}) \cup {rd.file}}
    \* f.file = nil at the end of the last file: no Close
    ELSE {opened}

ReaderNext(e, rd, rf, fresh) ==
    /\ opened' \in OpenedAfter(rd)
    /\ f_ps' = rd.ps
    /\ f_file' = rd.file
    /\ fbuf' = rd.buf
    /\ feof' = rd.feof
    /\ n' = IF rf = "more" THEN n + rd.n ELSE 0
    /\ body' = IF fresh /\ rf # "more" THEN ZeroBody ELSE rd.body
    /\ hist' = IF e = NoExt THEN hist ELSE Append(hist, e)
    /\ out' = IF rf = "frame" THEN Append(out, rd.body) ELSE out

\* ------------------------------------------------------------ output files
\* a file is its size and the bytes written to it, by offset; a byte never written
\* reads as zero (a hole)
EmptyFile(sz) == [size |-> sz, data |-> [o \in {} |-> null]]

\* os.File.Truncate(sz)
Truncate(f, sz) ==
    [size |-> sz, data |-> [o \in {x \in DOMAIN f.data : x < sz} |-> f.data[o]]]

\* os.File.Write(d) with the file's cursor at pos
WriteAt(f, pos, d) ==
    IF Len(d) = 0 THEN f
    ELSE [size |-> Max(f.size, pos + Len(d)),
          data |-> [o \in DOMAIN f.data \cup (pos..(pos + Len(d) - 1)) |->
                      IF o >= pos /\ o < pos + Len(d) THEN d[o - pos + 1] ELSE f.data[o]]]

ByteAt(f, o) == IF o \in DOMAIN f.data THEN f.data[o] ELSE null

\* the bytes of a file, read from its start
Content(f) == [i \in 1..f.size |-> ByteAt(f, i - 1)]

\* fs with file nm replaced by f
Put(files, nm, f) ==
    [x \in DOMAIN files \cup {nm} |-> IF x = nm THEN f ELSE files[x]]

\* a New whose last-seen counter is no counter
NewLastOut(nm, s) ==
    [nil |-> FALSE, Name |-> nm, Size |-> s, Blocks |-> 0, Bytes |-> 0,
     last |-> counterLimit, pos |-> 0, digest |-> <<>>, open |-> TRUE]

\* a New that does not keep the declared size
NewSizeless(nm, s) ==
    [nil |-> FALSE, Name |-> nm, Size |-> 0, Blocks |-> 0, Bytes |-> 0, last |-> 0,
     pos |-> 0, digest |-> <<>>, open |-> TRUE]

\* ------------------------------------------------------------ mvis (streaming)
\* New(n, s): os.Create, Truncate(s)
New(nm, s) ==
    [nil |-> FALSE, Name |-> nm, Size |-> s, Blocks |-> 0, Bytes |-> 0, last |-> 0,
     pos |-> 0, digest |-> <<>>, open |-> TRUE]

\* the file system operations that may fail, and "none" when none does
Fails == {"none", "meta", "create", "truncate", "seek", "write"}

\* (m *mvis) Write(bs) on the file f of m: the assembler and the file after the call,
\* the count returned and the error.  fl: the operation on the file that fails
Write(m, f, bs, fl) ==
    LET s == Uint16(bs)
        diff == Diff(s, m.last)
        gap == IsGap(s, diff)
        offset == (diff - 1) * PayloadSize
        f1 == IF gap THEN Truncate(f, offset) ELSE f
        pos1 == IF gap THEN m.pos + offset ELSE m.pos
        data == TrimRight(SubSeq(bs, 3, Len(bs)))
    IN  IF s >= counterLimit
        THEN [m |-> m, f |-> f, n |-> 0, err |-> "invalid sequence counter"]
        ELSE IF IsDuplicate(s, m.last)
        THEN [m |-> m, f |-> f, n |-> 0, err |-> "nil"]
        \* if err := m.file.Truncate(int64(offset)); err != nil { return 0, nil }
        ELSE IF gap /\ fl = "truncate"
        THEN [m |-> m, f |-> f, n |-> 0, err |-> "nil"]
        ELSE IF gap /\ fl = "seek"
        THEN [m |-> m, f |-> f1, n |-> 0, err |-> "seek"]
        ELSE IF fl = "write"
        THEN [m |-> [m EXCEPT !.last = s, !.pos = pos1], f |-> f1, n |-> 0,
              err |-> "write"]
        ELSE [m |-> [m EXCEPT !.last = s, !.pos = pos1 + Len(data),
                              !.digest = @ \o data, !.Blocks = @ + 1,
                              !.Bytes = @ + Len(data)],
              f |-> WriteAt(f1, pos1, data), n |-> Len(bs), err |-> "nil"]

\* (m *mvis) Close()
Close(m) == [m EXCEPT !.open = FALSE]

\* a Close that leaves the file open
CloseHandleNot(h) == h

\* the open output files after m.file.Close(), m.file being the last one opened
CloseHandle(h) == SubSeq(h, 1, Len(h) - 1)

\* what (m *mvis) WriteMetadata() encodes of m
Metadata(m) ==
    [File |-> m.Name, Size |-> m.Size, Sum |-> m.digest, Blocks |-> m.Blocks,
     Bytes |-> m.Bytes]

\* the operations of Write(bs) on the file of m that may fail
WriteFails(m, bs) ==
    IF Uint16(bs) >= counterLimit \/ IsDuplicate(Uint16(bs), m.last) THEN {"none"}
    ELSE IF IsGap(Uint16(bs), Diff(Uint16(bs), m.last))
    THEN {"none", "truncate", "seek", "write"}
    ELSE {"none", "write"}

\* the open output files after: if curr != nil { curr.Close() }
Closed == IF curr.nil THEN handles ELSE CloseHandle(handles)

\* if curr != nil { curr.Close(); if meta { curr.WriteMetadata() } }
Finalize(fl) ==
    /\ fl = "meta" => (~curr.nil /\ meta)
    /\ metas' = IF ~curr.nil /\ meta /\ fl # "meta" THEN Append(metas, Metadata(curr))
                ELSE metas

\* a new-file sentinel in the loop of dumpFiles
DumpSentinel(nm, sz, fl) ==
    /\ fl \in {"none", "meta", "create"}
    /\ Finalize(fl)
    /\ IF fl = "meta" THEN
           /\ curr' = Close(curr)
           /\ handles' = Closed
           /\ fs' = fs
           /\ pc' = "error"
           /\ err' = fl
       ELSE IF fl = "create" THEN
           /\ curr' = NoMvis
           /\ handles' = Closed
           /\ fs' = fs
           /\ pc' = "error"
           /\ err' = fl
       ELSE
           /\ curr' = New(nm, sz)
           /\ handles' = Append(Closed, nm)
           /\ fs' = Put(fs, nm, EmptyFile(sz))
           /\ pc' = "run"
           /\ err' = err

\* curr.Write(body) in the loop of dumpFiles, w what Write returns
DumpWrite(w) ==
    /\ curr' = w.m
    /\ fs' = Put(fs, curr.Name, w.f)
    /\ pc' = IF w.err = "nil" THEN "run" ELSE "error"
    /\ err' = IF w.err = "nil" THEN err ELSE w.err

\* the body of the loop of dumpFiles for one frame
DumpFrame(b, fl) ==
    LET sequence == Uint16(b)
        sz == Uint32(SubSeq(b, 3, Len(b)))
        nm == Trim(SubSeq(b, 7, Len(b)))
    IN  IF sequence = FileFlag THEN
            DumpSentinel(nm, sz, fl)
        ELSE IF curr.nil THEN
            \* Write on a nil *mvis: the counter test needs no field, m.last does
            /\ fl = "none"
            /\ UNCHANGED <<curr, fs, metas, handles>>
            /\ pc' = IF sequence >= counterLimit THEN "error" ELSE "panic"
            /\ err' = IF sequence >= counterLimit THEN "invalid sequence counter"
                       ELSE "nil pointer dereference"
        ELSE
            /\ fl \in WriteFails(curr, b)
            /\ UNCHANGED <<metas, handles>>
            /\ DumpWrite(Write(curr, fs[curr.Name], b, fl))

\* dumpFiles after the loop
DumpEnd(fl) ==
    /\ fl \in {"none", "meta"}
    /\ Finalize(fl)
    /\ handles' = Closed
    /\ curr' = IF curr.nil THEN curr ELSE Close(curr)
    /\ fs' = fs
    /\ pc' = IF fl = "none" THEN "done" ELSE "error"
    /\ err' = IF fl = "none" THEN err ELSE fl

\* one call of Read by the loop of dumpFiles, and what the loop does with its result
DumpRead(e, rd, rf, fl) ==
    /\ ReaderNext(e, rd, rf, TRUE)
    /\ CASE rf = "frame" -> DumpFrame(rd.body, fl) /\ fail' = fl
         [] rf = "more" ->
              /\ fl = "none"
              /\ fail' = ReadFail(rd)
              /\ UNCHANGED <<dumpVars, pc, err>>
         [] rf = "EOF" -> DumpEnd(fl) /\ fail' = fl
         [] rf = "panic" ->
              /\ fl = "none"
              /\ fail' = ReadFail(rd)
              /\ UNCHANGED dumpVars
              /\ pc' = "panic"
              /\ err' = "index out of range"
         [] OTHER ->
              /\ fl = "none"
              /\ fail' = ReadFail(rd)
              /\ UNCHANGED dumpVars
              /\ pc' = "error"
              /\ err' = ReadErr(rd)

DumpStep(e, rd, fl) == DumpRead(e, rd, ReadFull(rd), fl)

dumpFiles ==
    /\ mode = "dump"
    /\ pc = "run"
    /\ \E e \in Exts \cup {NoExt} : \E ok \in OpenOK(e) : \E fl \in Fails :
         /\ ExtOK(e)
         /\ DumpStep(e, Read(e, ok), fl)
    /\ UNCHANGED <<several, mode, zero, meta, listVars, prepVars, newVars, diffVars>>

\* ------------------------------------------------------------ listBlocks
ListFrame(b) ==
    LET s == Uint16(b)
        diff == Diff(s, prev)
    IN  /\ size' = size + LineSize
        /\ IF s = FileFlag THEN
               /\ count' = count
               /\ UNCHANGED <<prev, missing>>
           ELSE
               /\ count' = count + 1
               /\ missing' = IF IsGap(s, diff) THEN missing + (diff - 1) ELSE missing
               /\ prev' = s

ListRead(e, rd, rf) ==
    /\ ReaderNext(e, rd, rf, FALSE)
    /\ fail' = ReadFail(rd)
    /\ CASE rf = "frame" -> ListFrame(rd.body) /\ UNCHANGED <<pc, err>>
         [] rf = "more" -> UNCHANGED <<listVars, pc, err>>
         [] rf = "EOF" -> UNCHANGED <<listVars, err>> /\ pc' = "done"
         [] rf = "panic" ->
              /\ UNCHANGED listVars
              /\ pc' = "panic"
              /\ err' = "index out of range"
         [] OTHER ->
              /\ UNCHANGED listVars
              /\ pc' = "error"
              /\ err' = ReadErr(rd)

ListStep(e, rd) == ListRead(e, rd, ReadFull(rd))

listBlocks ==
    /\ mode = "list"
    /\ pc = "run"
    /\ \E e \in Exts \cup {NoExt} : \E ok \in OpenOK(e) :
         /\ ExtOK(e)
         /\ ListStep(e, Read(e, ok))
    /\ UNCHANGED <<several, mode, zero, meta, dumpVars, prepVars, newVars, diffVars>>

\* ------------------------------------------------------------ pre-sized buffer
\* the filler of main: 0x20, or the null byte with -zero
Filler == IF zero THEN null ELSE Space

\* copy(dst[off:], src): dst afterwards
CopyAt(dst, off, src) ==
    [i \in 1..Len(dst) |-> IF i > off /\ i <= off + Len(src) THEN src[i - off] ELSE dst[i]]

\* the count copy(dst[off:], src) returns
CopyLen(dst, off, src) == Min(Len(dst) - off, Len(src))

\* the mvis prepare makes for a sentinel
NewBuffer(nm, sz) ==
    [Name |-> nm, Size |-> sz, Blocks |-> 0, Counters |-> {}, Bytes |-> 0,
     Payload |-> Rep(Filler, sz), last |-> 0, offset |-> 0]

\* (m *mvis) writeBlock(bs), running offset: the mvis after the call and the error;
\* "panic" when m.Payload[m.offset:] is out of range
writeBlock(m, bs) ==
    LET s == Uint16(bs)
        diff == Diff(s, m.last)
        off == IF IsGap(s, diff) THEN m.offset + (diff - 1) * PayloadSize ELSE m.offset
        src == SubSeq(bs, 3, Len(bs))
        k == CopyLen(m.Payload, off, src)
    IN  IF s >= counterLimit THEN [m |-> m, err |-> "invalid sequence counter"]
        ELSE IF IsDuplicate(s, m.last) THEN [m |-> m, err |-> "nil"]
        ELSE IF off > Len(m.Payload)
        THEN [m |-> [m EXCEPT !.offset = off, !.last = s], err |-> "panic"]
        ELSE [m |-> [m EXCEPT !.last = s, !.Payload = CopyAt(@, off, src),
                              !.Blocks = @ + 1, !.Bytes = @ + k, !.offset = off + k],
              err |-> "nil"]

\* (m mvis) writeBlock(bs), absolute offset
writeBlock1(m, bs) ==
    LET s == Uint16(bs)
        i == s * PayloadSize
    IN  IF i > Len(m.Payload) THEN [m |-> m, err |-> "panic"]
        ELSE [m |-> [m EXCEPT !.Payload = CopyAt(@, i, SubSeq(bs, 3, Len(bs))),
                              !.Counters = @ \cup {s}],
              err |-> "nil"]

\* the body of the loop of prepare for one frame; v1: the absolute-offset version
PrepareFrame(b, v1) ==
    LET sequence == Uint16(b)
        sz == Uint32(SubSeq(b, 3, Len(b)))
        nm == Trim(SubSeq(b, 7, Len(b)))
    IN  IF sequence = FileFlag THEN
            /\ name' = nm
            /\ buffer' = IF nm \in DOMAIN buffer THEN buffer
                         ELSE Put(buffer, nm, NewBuffer(nm, sz))
            /\ UNCHANGED <<pc, err>>
        ELSE IF name \notin DOMAIN buffer THEN
            \* running offset: continue; absolute offset: writeBlock on a nil *mvis
            /\ UNCHANGED <<buffer, name>>
            /\ pc' = IF v1 THEN "panic" ELSE pc
            /\ err' = IF v1 THEN "nil pointer dereference" ELSE err
        ELSE
            LET w == IF v1 THEN writeBlock1(buffer[name], b) ELSE writeBlock(buffer[name], b)
            IN  /\ name' = name
                /\ buffer' = Put(buffer, name, w.m)
                /\ pc' = CASE w.err = "nil" -> pc
                            [] w.err = "panic" -> "panic"
                            [] OTHER -> "error"
                /\ err' = CASE w.err = "nil" -> err
                             [] w.err = "panic" -> "slice bounds out of range"
                             [] OTHER -> w.err

\* (m *mvis) WriteFile(dir) for every mvis of the buffer, after prepare
WriteFiles ==
    [nm \in {x \in DOMAIN buffer : Len(buffer[x].Payload) > 0} |->
        [size |-> Len(buffer[nm].Payload),
         data |-> [o \in 0..(Len(buffer[nm].Payload) - 1) |-> buffer[nm].Payload[o + 1]]]]

PrepareRead(e, rd, rf, v1) ==
    /\ ReaderNext(e, rd, rf, TRUE)
    /\ fail' = ReadFail(rd)
    /\ CASE rf = "frame" -> PrepareFrame(rd.body, v1) /\ fs' = fs
         [] rf = "more" -> UNCHANGED <<prepVars, fs, pc, err>>
         [] rf = "EOF" ->
              /\ UNCHANGED <<prepVars, err>>
              /\ fs' = WriteFiles
              /\ pc' = "done"
         [] rf = "panic" ->
              /\ UNCHANGED <<prepVars, fs>>
              /\ pc' = "panic"
              /\ err' = "index out of range"
         [] OTHER ->
              /\ UNCHANGED <<prepVars, fs>>
              /\ pc' = "error"
              /\ err' = ReadErr(rd)

PrepareStep(v1) ==
    /\ pc = "run"
    /\ \E e \in Exts \cup {NoExt} : \E ok \in OpenOK(e) :
         /\ ExtOK(e)
         /\ PrepareRead(e, Read(e, ok), ReadFull(Read(e, ok)), v1)
    /\ UNCHANGED <<several, mode, zero, meta, curr, metas, handles, listVars, newVars,
                   diffVars>>

\* prepare with the running-offset writeBlock
prepare == mode = "buffer" /\ PrepareStep(FALSE)

\* prepare with the absolute-offset writeBlock
prepare1 == mode = "absolute" /\ PrepareStep(TRUE)

\* ------------------------------------------------------------ NewReader
\* strings are sequences of bytes
Underscore == <<95>>
BadSuffix == <<46, 98, 97, 100>>

\* "a_001", "a_002", "a_003", "b_001", "a_002.bad", "c", "A"
PathA1 == <<97, 95, 48, 48, 49>>
PathA2 == <<97, 95, 48, 48, 50>>
PathA3 == <<97, 95, 48, 48, 51>>
PathB1 == <<98, 95, 48, 48, 49>>
PathBad == PathA2 \o BadSuffix
PathC == <<99>>
PathUp == <<65>>
Paths == {PathA1, PathA2, PathA3, PathB1, PathBad, PathC, PathUp}

\* strings.HasPrefix(s, prefix)
HasPrefix(s, prefix) == Len(prefix) <= Len(s) /\ SubSeq(s, 1, Len(prefix)) = prefix

\* strings.HasSuffix(s, suffix)
HasSuffix(s, suffix) ==
    Len(suffix) <= Len(s) /\ SubSeq(s, Len(s) - Len(suffix) + 1, Len(s)) = suffix

\* strings.LastIndex(s, "_"): the index from 0 of the last underscore, or -1
LastIndex(s) ==
    LET at == {k \in 1..Len(s) : <<s[k]>> = Underscore}
    IN  IF at = {} THEN -1 ELSE (CHOOSE k \in at : \A l \in at : l <= k) - 1

\* a < b for Go strings: the order of the bytes
RECURSIVE Less(_, _)
Less(a, b) ==
    IF b = <<>> THEN FALSE
    ELSE IF a = <<>> THEN TRUE
    ELSE IF a[1] # b[1] THEN a[1] < b[1]
    ELSE Less(Tail(a), Tail(b))

\* s, sorted, with p put in its place
RECURSIVE Insert(_, _)
Insert(s, p) ==
    IF s = <<>> THEN <<p>>
    ELSE IF Less(p, s[1]) THEN <<p>> \o s
    ELSE <<s[1]>> \o Insert(Tail(s), p)

\* sort.Strings(s)
RECURSIVE SortStrings(_)
SortStrings(s) == IF s = <<>> THEN <<>> ELSE Insert(SortStrings(Tail(s)), s[1])

\* the inner loop of NewReader from j (from 0): where it breaks, or that it ends
RECURSIVE InnerLoop(_, _, _)
InnerLoop(s, p, j) ==
    IF j >= Len(s) THEN [k |-> "end", j |-> j]
    ELSE IF LastIndex(s[j + 1]) < 0 THEN [k |-> "invalid", j |-> j]
    ELSE IF ~HasPrefix(p, SubSeq(s[j + 1], 1, LastIndex(s[j + 1])))
    THEN [k |-> "break", j |-> j]
    ELSE InnerLoop(s, p, j + 1)

\* the outer loop of NewReader from i (from 0) with the list x: the list and the error
RECURSIVE OuterLoop(_, _, _, _)
RECURSIVE OuterBody(_, _, _, _, _)
OuterLoop(s, kp, i, x) ==
    IF i >= Len(s) THEN [xs |-> x, err |-> "nil"]
    ELSE IF ~kp /\ HasSuffix(s[i + 1], BadSuffix) THEN OuterLoop(s, kp, i + 1, x)
    ELSE OuterBody(s, kp, i, x, InnerLoop(s, s[i + 1], i + 1))

\* NewReader after the inner loop r: xs, i = append(xs, ps[j-1]), j-1 on a break
OuterBody(s, kp, i, x, r) ==
    CASE r.k = "invalid" -> [xs |-> x, err |-> "invalid filename"]
      [] r.k = "break" -> OuterLoop(s, kp, r.j, Append(x, s[r.j]))
      [] OTHER -> OuterLoop(s, kp, i + 1, x)

\* the end of NewReader with the list r of the loop; ok: openFile(xs[0]) succeeds
NewReaderEnd(r, ok) ==
    /\ xs' = r.xs
    /\ IF r.err # "nil" THEN
           /\ opened' = opened
           /\ pc' = "error" /\ err' = r.err
           /\ UNCHANGED <<f_file, f_ps, several>>
       ELSE IF Len(r.xs) = 0 THEN
           /\ opened' = opened
           /\ pc' = "error" /\ err' = "no valid files provided"
           /\ UNCHANGED <<f_file, f_ps, several>>
       ELSE IF ~ok THEN
           /\ opened' \in {{}, {1}}
           /\ pc' = "error" /\ err' = "open"
           /\ UNCHANGED <<f_file, f_ps, several>>
       ELSE
           /\ pc' = "run" /\ err' = err
           /\ opened' = {1}
           /\ f_file' = 1
           /\ f_ps' = [k \in 1..(Len(r.xs) - 1) |-> k + 1]
           /\ several' = (Len(r.xs) > 1)

\* NewReader(ps, keep); the archive files are numbered by their place in xs
NewReader ==
    /\ pc = "new"
    /\ ps' = SortStrings(ps)
    /\ \E ok \in BOOLEAN : NewReaderEnd(OuterLoop(SortStrings(ps), keep, 0, <<>>), ok)
    /\ UNCHANGED <<mode, zero, meta, fail, keep, fbuf, feof, body, n, hist, out>>
    /\ UNCHANGED <<dumpVars, listVars, prepVars, diffVars>>

\* ------------------------------------------------------------ counters
\* no difference computed yet
NoDiff == 0 - 1

\* the counters tried: the first ones, the last ones and one in the middle
Counters ==
    (0..MaxCounter) \cup ((counterMask - MaxCounter)..counterMask)
        \cup {counterLimit \div 2}

\* diff := (s - m.last) & counterMask, as mvis.Write and listBlocks compute it
difference ==
    /\ pc = "diff"
    /\ d_diff' = Diff(d_s, d_last)
    /\ pc' = "diffed"
    /\ UNCHANGED <<several, mode, zero, meta, err, fail, d_s, d_last>>
    /\ UNCHANGED <<readerVars, dumpVars, listVars, prepVars, newVars>>

\* ------------------------------------------------------------ specification
Modes == {"dump", "list", "buffer", "absolute"}
BufModes == {"buffer", "absolute"}

\* the reader NewReader returns: the first file open, the others still to open
Start ==
    /\ zero \in IF mode \in BufModes THEN BOOLEAN ELSE {FALSE}
    /\ meta \in IF mode = "dump" THEN BOOLEAN ELSE {FALSE}
    /\ metas = <<>>
    /\ handles = <<>>
    /\ fail = "none"
    /\ d_s = 0
    /\ d_last = 0
    /\ d_diff = NoDiff
    /\ pc = "run"
    /\ err = "nil"
    /\ f_file = 1
    /\ opened = {1}
    /\ fbuf = <<>>
    /\ feof = FALSE
    /\ body = ZeroBody
    /\ n = 0
    /\ hist = <<>>
    /\ out = <<>>
    /\ curr = NoMvis
    /\ fs = [x \in {} |-> EmptyFile(0)]
    /\ prev = 0
    /\ missing = 0
    /\ count = 0
    /\ size = 0
    /\ buffer = [x \in {} |-> NewBuffer(<<>>, 0)]
    /\ name = <<>>
    /\ ps = <<>>
    /\ keep = FALSE
    /\ xs = <<>>

\* one archive file of whole frames
InitOne ==
    /\ several = FALSE
    /\ mode \in Modes
    /\ f_ps = <<>>
    /\ Start

\* a set of two archive files or more
InitFiles ==
    /\ several = TRUE
    /\ mode \in Modes
    /\ f_ps \in {[i \in 1..(k - 1) |-> i + 1] : k \in 2..MaxFiles}
    /\ Start

Init == InitOne \/ InitFiles

Next == dumpFiles \/ listBlocks \/ prepare \/ prepare1

Spec == Init /\ [][Next]_vars

SpecFiles == InitFiles /\ [][Next]_vars

\* main before NewReader: up to MaxPaths paths on the command line
InitReader ==
    /\ ps \in UNION {[1..k -> Paths] : k \in 0..MaxPaths}
    /\ keep \in BOOLEAN
    /\ mode \in Modes
    /\ zero = FALSE
    /\ meta = FALSE
    /\ metas = <<>>
    /\ handles = <<>>
    /\ fail = "none"
    /\ d_s = 0
    /\ d_last = 0
    /\ d_diff = NoDiff
    /\ several = FALSE
    /\ pc = "new"
    /\ err = "nil"
    /\ f_file = NoFile
    /\ opened = {}
    /\ f_ps = <<>>
    /\ fbuf = <<>>
    /\ feof = FALSE
    /\ body = ZeroBody
    /\ n = 0
    /\ hist = <<>>
    /\ out = <<>>
    /\ curr = NoMvis
    /\ fs = [x \in {} |-> EmptyFile(0)]
    /\ prev = 0
    /\ missing = 0
    /\ count = 0
    /\ size = 0
    /\ buffer = [x \in {} |-> NewBuffer(<<>>, 0)]
    /\ name = <<>>
    /\ xs = <<>>

SpecReader == InitReader /\ [][NewReader]_vars

\* the loops of dumpFiles and listBlocks over two archive files; they run in a
\* sequential program: a call of Read that can be made is made
InitLive == InitFiles /\ Len(f_ps) = 1 /\ mode \in {"dump", "list"}

NextLive == dumpFiles \/ listBlocks

SpecLive == InitLive /\ [][NextLive]_vars /\ WF_vars(NextLive)

\* a counter and a last-seen counter, before their difference is computed
InitDiff ==
    /\ d_s \in Counters
    /\ d_last \in Counters
    /\ d_diff = NoDiff
    /\ pc = "diff"
    /\ mode = "dump"
    /\ zero = FALSE
    /\ meta = FALSE
    /\ metas = <<>>
    /\ handles = <<>>
    /\ fail = "none"
    /\ several = FALSE
    /\ err = "nil"
    /\ f_file = 1
    /\ opened = {1}
    /\ f_ps = <<>>
    /\ fbuf = <<>>
    /\ feof = FALSE
    /\ body = ZeroBody
    /\ n = 0
    /\ hist = <<>>
    /\ out = <<>>
    /\ curr = NoMvis
    /\ fs = [x \in {} |-> EmptyFile(0)]
    /\ prev = 0
    /\ missing = 0
    /\ count = 0
    /\ size = 0
    /\ buffer = [x \in {} |-> NewBuffer(<<>>, 0)]
    /\ name = <<>>
    /\ ps = <<>>
    /\ keep = FALSE
    /\ xs = <<>>

SpecDiff == InitDiff /\ [][difference]_vars

\* ------------------------------------------------------------ properties
\* the archive files read so far are made of whole frames
Aligned(h) == \A i \in 1..Len(h) : h[i].k # "tail"

\* the frames of h that are not idle, without the ends of files
Frames(h) == SelectSeq(h, LAMBDA x : x.k = "frame" /\ x.f # FIdle)

IsData(d) == d.c < counterLimit

\* this step hands a frame to the consumer
Surfaces == Len(out') = Len(out) + 1

\* the frame this step hands to the consumer
Surfaced == out'[Len(out')]

\* this step reads the frame d from an archive file made of whole frames
Reads(d) == Aligned(hist) /\ hist' = Append(hist, FrameExt(d))

\* the number of counters skipped between the counters p and c
Skipped(p, c) == ((c - p + counterLimit) % counterLimit) - 1

\* the sequencer of dumpFiles and of prepare is Idle: no file is being written
IsIdleState ==
    CASE mode = "dump" -> curr.nil
      [] mode \in BufModes -> name \notin DOMAIN buffer
      [] OTHER -> FALSE

\* C1: a sentinel declaring 124 bytes followed by the data frames 0 and 1 with
\* payloads of 62 'A' and 62 'B' and the end of the stream yields an output of
\* 124 bytes, the two payloads in counter order, block count 2, byte count 124
C1_EndToEnd ==
    (/\ mode \in {"dump", "buffer"}
     /\ pc = "done"
     /\ hist = <<FrameExt(FX), FrameExt(F0), FrameExt(F1), EofExt>>)
    => /\ NameX \in DOMAIN fs
       /\ Content(fs[NameX]) = Payload(F0) \o Payload(F1)
       /\ IF mode = "dump" THEN curr.Blocks = 2 /\ curr.Bytes = 2 * PayloadSize
          ELSE buffer[NameX].Blocks = 2 /\ buffer[NameX].Bytes = 2 * PayloadSize

\* C3: in the report pass, a data frame that follows a data frame of counter p
\* with k >= 1 counters skipped adds exactly k to the missing count
C3_GapCounted ==
    [][\A d \in Pool :
          (/\ mode = "list"
           /\ Reads(d) /\ IsData(d)
           /\ Len(hist) > 0 /\ hist[Len(hist)].k = "frame" /\ IsData(hist[Len(hist)].f)
           /\ prev = hist[Len(hist)].f.c
           /\ Skipped(prev, d.c) >= 1)
          => missing' = missing + Skipped(prev, d.c)]_vars

\* C4: the buffer of a new logical file has the declared size and holds the
\* filler everywhere; a data frame that fits in the buffer is put at the offset
\* counter * 62 and changes no other byte
C4_AbsoluteOffset ==
    [][\A d \in Pool :
          (mode \in BufModes /\ Reads(d) /\ pc' = "run")
          => /\ (d.c = FileFlag /\ d.name \notin DOMAIN buffer)
                => buffer'[d.name].Payload = [i \in 1..d.size |-> Filler]
             /\ (/\ IsData(d) /\ name \in DOMAIN buffer
                 /\ (d.c + 1) * PayloadSize <= buffer[name].Size)
                => buffer'[name].Payload =
                     [i \in 1..buffer[name].Size |->
                        IF i > d.c * PayloadSize /\ i <= (d.c + 1) * PayloadSize
                        THEN Payload(d)[i - d.c * PayloadSize]
                        ELSE buffer[name].Payload[i]]]_vars

\* C5: a data frame whose counter is the last-seen counter of the assembler
\* changes nothing of the assembler and of its output, and the run goes on
C5_Duplicate ==
    [][(Surfaces /\ ~IsIdleState /\ Uint16(Surfaced) # FileFlag)
       => /\ (mode = "dump" /\ Uint16(Surfaced) = curr.last)
             => (curr' = curr /\ fs' = fs /\ pc' = "run")
          /\ (mode = "buffer" /\ Uint16(Surfaced) = buffer[name].last)
             => (buffer' = buffer /\ fs' = fs /\ pc' = "run")]_vars

\* a duplicate has been written: frame 1 twice after the sentinel
C5_Witness ==
    /\ mode = "dump" /\ pc = "run"
    /\ hist = <<FrameExt(FX), FrameExt(F1), FrameExt(F1)>>
    /\ curr.Blocks = 1 /\ curr.last = 1

\* C6: the data frame 0 after the last-seen counter 32767 is the next frame: the
\* report pass counts no missing block, the assembler skips no offset
C6_Wraparound ==
    [][(Surfaces /\ Uint16(Surfaced) = 0)
       => /\ (mode = "list" /\ prev = counterMask) => missing' = missing
          /\ (mode = "dump" /\ ~curr.nil /\ curr.last = counterMask /\ fail' = "none")
             => /\ curr'.pos = curr.pos + Len(TrimRight(SubSeq(Surfaced, 3, LineSize)))
                /\ fs'[curr.Name].size = Max(fs[curr.Name].size, curr'.pos)
                /\ curr'.Blocks = curr.Blocks + 1
          /\ (mode = "buffer" /\ name \in DOMAIN buffer /\ buffer[name].last = counterMask
                  /\ pc' = "run")
             => /\ buffer'[name].offset <= buffer[name].offset + PayloadSize
                /\ buffer'[name].Blocks = buffer[name].Blocks + 1]_vars

\* the frame 0 has been written after the frame 32767
C6_Witness ==
    /\ mode = "dump" /\ pc = "run"
    /\ hist = <<FrameExt(FX), FrameExt(FMax), FrameExt(F0)>>
    /\ curr.Blocks = 2 /\ curr.last = 0

\* the data frames of every logical file of h follow one another by 1 modulo 32768
Sequential(h) ==
    /\ \A i \in 1..Len(h) : h[i].f.c = FileFlag \/ IsData(h[i].f)
    /\ Len(h) > 0 => h[1].f.c = FileFlag
    /\ \A i \in 1..(Len(h) - 1) :
         (IsData(h[i].f) /\ IsData(h[i + 1].f))
         => h[i + 1].f.c = (h[i].f.c + 1) % counterLimit

\* C7: when the data frames of every logical file follow one another by 1 modulo
\* 32768, the report pass counts no missing block, also over several logical
\* files, and the byte count of the assembler is the number of bytes it has written
C7_Sequential ==
    (Aligned(hist) /\ Sequential(Frames(hist)))
    => /\ mode = "list" => missing = 0
       /\ (mode = "dump" /\ ~curr.nil) => curr.Bytes = Len(curr.digest)

\* C8: in archive files made of whole frames an idle frame is never handed to the
\* consumer, and reading one changes nothing of the assembler, of its output, of
\* the buffers and of the counts of the report pass
C8_IdleInvisible ==
    [][/\ Aligned(hist') => \A i \in 1..Len(out') : Uint16(out'[i]) # MilFlag
       /\ Reads(FIdle)
          => /\ UNCHANGED <<dumpVars, listVars, prepVars, out, pc, err>>
             /\ UNCHANGED <<f_ps, f_file, fbuf, feof, n>>]_vars

\* an idle frame has been read right after the sentinel, and a data frame after it
C8_Witness ==
    /\ mode = "dump" /\ pc = "run"
    /\ hist = <<FrameExt(FX), FrameExt(FIdle), FrameExt(F1)>>
    /\ Len(out) = 2
    /\ curr.Blocks = 1

\* C9: a data frame handed to the sequencer while it is Idle changes nothing and
\* the run goes on
C9_DataWhileIdle ==
    [][(Surfaces /\ IsIdleState /\ Uint16(Surfaced) # FileFlag)
       => (pc' = "run" /\ UNCHANGED <<dumpVars, prepVars>>)]_vars

\* C10: a data frame with a tag in 32768..0xFFFD handed to the sequencer while a
\* logical file is written puts the sequencer back to Idle, and the run goes on
C10_OutOfRange ==
    [][(/\ mode # "list" /\ Surfaces /\ ~IsIdleState
        /\ Uint16(Surfaced) >= counterLimit /\ Uint16(Surfaced) < MilFlag)
       => (pc' = "run" /\ IsIdleState')]_vars

\* the UPI prefix of the path p: what is before its last underscore
Upi(p) == SubSeq(p, 1, LastIndex(p))

\* the paths of s that end a maximal run of paths with the same UPI prefix
RECURSIVE LastOfRuns(_)
LastOfRuns(s) ==
    IF s = <<>> THEN <<>>
    ELSE IF Len(s) = 1 \/ Upi(s[1]) # Upi(s[2]) THEN <<s[1]>> \o LastOfRuns(Tail(s))
    ELSE LastOfRuns(Tail(s))

\* C2: for paths that all have a UPI prefix and none the suffix .bad, the list
\* NewReader builds holds the last path of every maximal run of sorted paths
\* with the same UPI prefix, the last run included, and no other path
C2_Dedup ==
    (/\ pc \in {"run", "error"}
     /\ Len(ps) > 0
     /\ \A k \in 1..Len(ps) : LastIndex(ps[k]) >= 0 /\ ~HasSuffix(ps[k], BadSuffix))
    => xs = LastOfRuns(ps)

\* C11: dumpFiles has at most one output file open; a sentinel met while a logical
\* file is written closes that file, and writes its metadata when asked, and only
\* the new file is open afterwards; the first sentinel writes no metadata; at the
\* end of the stream the file being written is closed before dumpFiles returns
C11_Finalization ==
    [][mode = "dump"
       => /\ Len(handles') <= 1
          /\ (Surfaces /\ Uint16(Surfaced) = FileFlag)
             => /\ handles' = IF fail' = "none" THEN <<curr'.Name>> ELSE <<>>
                /\ (~curr.nil /\ meta /\ fail' # "meta")
                   => metas' = Append(metas, Metadata(curr))
                /\ curr.nil => metas' = metas
          /\ pc' = "done"
             => /\ handles' = <<>>
                /\ ~curr'.nil => ~curr'.open
                /\ (pc = "run" /\ ~curr.nil /\ meta)
                   => metas' = Append(metas, Metadata(curr))]_vars

\* a second sentinel has closed the first logical file and written its metadata
C11_Witness ==
    /\ mode = "dump" /\ pc = "run" /\ meta
    /\ hist = <<FrameExt(FX), FrameExt(F1), FrameExt(FY)>>
    /\ handles = <<NameY>>
    /\ Len(metas) = 1 /\ metas[1].File = NameX /\ metas[1].Blocks = 1

\* the bytes of the frames fr, in their order
BytesOf(fr) == [i \in 1..Len(fr) |-> Bytes(fr[i].f)]

\* C12: over archive files of whole frames the frames handed to the consumer are
\* the frames of the files that are not idle, in the order of the files and of the
\* frames in each; a file is opened when the one before it is at its end, and the
\* stream ends only when the last file is at its end
C12_Concatenation ==
    [][(mode # "absolute" /\ Aligned(hist'))
       => /\ out' = BytesOf(Frames(hist'))
          /\ f_ps' # f_ps
             => /\ f_ps' = Tail(f_ps) /\ f_file' = Head(f_ps)
                /\ hist' = Append(hist, EofExt)
          /\ (pc = "run" /\ pc' = "done")
             => (f_ps = <<>> /\ hist' = Append(hist, EofExt))]_vars

\* two archive files have been read to the end, an idle frame at the start of the
\* second one
C12_Witness ==
    /\ mode = "list" /\ pc = "done"
    /\ hist = <<FrameExt(FX), EofExt, FrameExt(FIdle), FrameExt(F1), EofExt>>
    /\ out = <<Bytes(FX), Bytes(F1)>>

\* an archive file read so far ends with a partial frame
HasTail(h) == \E i \in 1..Len(h) : h[i].k = "tail"

\* C13: once an archive file has been found to end with a partial frame, no frame
\* is handed to the consumer any more and the run does not end as a success
C13_NoPartial ==
    [][HasTail(hist') => (~Surfaces /\ pc' # "done")]_vars

\* C14: without -keep no path of the list NewReader builds has the suffix .bad
C14_NoBadPath ==
    (pc # "new" /\ ~keep) => \A k \in 1..Len(xs) : ~HasSuffix(xs[k], BadSuffix)

\* C15: NewReader returns an error whenever a path given to it has no underscore
C15_NoUnderscore ==
    (pc # "new" /\ \E k \in 1..Len(ps) : LastIndex(ps[k]) < 0) => pc = "error"

\* the paths of s NewReader is to read from: without -keep, those without .bad
Valid(s, kp) == SelectSeq(s, LAMBDA q : kp \/ ~HasSuffix(q, BadSuffix))

\* C16: for paths that all have a UPI prefix NewReader returns the error "no valid
\* files provided" exactly when no path is left once the .bad paths are taken out
\* and the last path of every run is kept, and it opens no archive file then
C16_NoValidFiles ==
    (pc # "new" /\ \A k \in 1..Len(ps) : LastIndex(ps[k]) >= 0)
    => /\ err = "no valid files provided" <=> LastOfRuns(Valid(ps, keep)) = <<>>
       /\ err = "no valid files provided" => f_file = NoFile

\* the offset in the buffer m at which writeBlock is to put the data frame d
Target(m, d) ==
    IF mode = "absolute" THEN d.c * PayloadSize
    ELSE IF IsGap(d.c, Diff(d.c, m.last))
    THEN m.offset + (Diff(d.c, m.last) - 1) * PayloadSize
    ELSE m.offset

\* the buffer m holds the payload of the data frame d
Holds(m, d) ==
    \E o \in 0..(Len(m.Payload) - PayloadSize) :
       SubSeq(m.Payload, o + 1, o + PayloadSize) = Payload(d)

\* C17: a data frame, not a duplicate, whose place in the buffer is at or past the
\* declared size ends the run with an error, or the run goes on with the payload
\* in the buffer
C17_BeyondSize ==
    [][\A d \in Pool :
          (/\ mode \in BufModes /\ Reads(d) /\ IsData(d)
           /\ name \in DOMAIN buffer
           /\ mode = "buffer" => d.c # buffer[name].last
           /\ Target(buffer[name], d) >= buffer[name].Size)
          => \/ pc' = "error"
             \/ pc' = "run" /\ Holds(buffer'[name], d)]_vars

\* C18: a step in which an operation on a file fails ends the run with an error
C18_FailureIsFatal ==
    [][fail' # "none" => pc' = "error"]_vars

\* C19: in the report pass a new-file sentinel puts the previous counter back to 0
C19_SentinelResetsPrev ==
    [][(mode = "list" /\ Surfaces /\ Uint16(Surfaced) = FileFlag) => prev' = 0]_vars

\* C20: a data frame dumpFiles writes whose counter is d > 1 past the last-seen
\* counter is written (d-1)*62 bytes after the cursor, the cursor ends after its
\* payload and the bytes skipped read as zero
C20_SeekForward ==
    [][\A d \in Pool :
          (/\ mode = "dump" /\ Reads(d) /\ IsData(d) /\ ~curr.nil
           /\ Diff(d.c, curr.last) > 1
           /\ fail' = "none")
          => LET start == curr.pos + (Diff(d.c, curr.last) - 1) * PayloadSize
                 data == TrimRight(Payload(d))
             IN  /\ curr'.pos = start + Len(data)
                 /\ \A o \in curr.pos..(start - 1) : ByteAt(fs'[curr.Name], o) = null
                 /\ \A o \in 1..Len(data) :
                      ByteAt(fs'[curr.Name], start + o - 1) = data[o]]_vars

\* C21: the assembler of dumpFiles starts with no block, no byte and an empty
\* checksum input; a data frame in range, not a duplicate, written without a
\* failure adds 1 to the blocks, the length of its payload without the trailing
\* null bytes to the bytes, and that payload to the checksum input and to the
\* file; any other data frame changes none of them; the bytes are the length of
\* the checksum input and at most 62 for every block
C21_Accounting ==
    [][mode = "dump"
       => /\ ~curr'.nil
             => /\ curr'.Bytes = Len(curr'.digest)
                /\ curr'.Bytes <= PayloadSize * curr'.Blocks
          /\ \A d \in Pool :
               /\ (Reads(d) /\ d.c = FileFlag /\ fail' = "none")
                  => (curr'.Blocks = 0 /\ curr'.Bytes = 0 /\ curr'.digest = <<>>)
               /\ (Reads(d) /\ d.c # FileFlag /\ ~curr.nil)
                  => IF IsData(d) /\ d.c # curr.last /\ fail' = "none"
                     THEN /\ curr'.Blocks = curr.Blocks + 1
                          /\ curr'.Bytes = curr.Bytes + (PayloadSize - d.z)
                          /\ curr'.digest = curr.digest \o Rep(d.b, PayloadSize - d.z)
                          /\ \A o \in 1..(PayloadSize - d.z) :
                               ByteAt(fs'[curr.Name], curr'.pos - o) = d.b
                     ELSE /\ curr'.Blocks = curr.Blocks
                          /\ curr'.Bytes = curr.Bytes
                          /\ curr'.digest = curr.digest]_vars

\* two data frames have been written, the second one with two trailing null bytes
C21_Witness ==
    /\ mode = "dump" /\ pc = "run"
    /\ hist = <<FrameExt(FX), FrameExt(F1), FrameExt(F2)>>
    /\ curr.Blocks = 2 /\ curr.Bytes = 2 * PayloadSize - 2

\* C22: the last-seen counter of an assembler is a counter of 0..32767; a data
\* frame that is a duplicate or that has a tag out of range leaves it as it was,
\* and a data frame that is written makes it the counter of that frame
C22_LastSeen ==
    [][/\ (mode = "dump" /\ ~curr'.nil) => curr'.last \in 0..counterMask
       /\ (mode = "buffer" /\ name' \in DOMAIN buffer')
          => buffer'[name'].last \in 0..counterMask
       /\ \A d \in Pool :
            (Reads(d) /\ d.c # FileFlag)
            => /\ (mode = "dump" /\ ~curr.nil)
                  => /\ (~IsData(d) \/ d.c = curr.last) => curr'.last = curr.last
                     /\ (IsData(d) /\ d.c # curr.last /\ fail' = "none")
                        => curr'.last = d.c
               /\ (mode = "buffer" /\ name \in DOMAIN buffer)
                  => /\ (~IsData(d) \/ d.c = buffer[name].last)
                        => buffer'[name].last = buffer[name].last
                     /\ (IsData(d) /\ d.c # buffer[name].last /\ pc' = "run")
                        => buffer'[name].last = d.c]_vars

\* a data frame has been written and the next one refused for its tag
C22_Witness ==
    /\ mode = "dump" /\ pc = "error" /\ err = "invalid sequence counter"
    /\ hist = <<FrameExt(FX), FrameExt(F1), FrameExt(FBad)>>
    /\ curr.last = 1

\* C23: for counters s and last of 0..32767 the difference computed is
\* (s - last) mod 32768; it is 0 exactly when s = last and 1 exactly when s is the
\* counter after last, 0 after 32767
C23_Difference ==
    pc = "diffed"
    => /\ d_diff = (d_s - d_last) % counterLimit
       /\ d_diff = 0 <=> d_s = d_last
       /\ d_diff = 1 <=> d_s = (d_last + 1) % counterLimit

\* the difference of the counter 0 to the last-seen counter 32767 has been computed
C23_Witness ==
    pc = "diffed" /\ d_s = 0 /\ d_last = counterMask /\ d_diff = 1

\* the size a surfaced sentinel declares
Declared == Uint32(SubSeq(Surfaced, 3, Len(Surfaced)))

\* this step hands a new-file sentinel to the consumer
SurfacesSentinel == Surfaces /\ Uint16(Surfaced) = FileFlag

\* C24: the size of an assembler is the size its sentinel declared, and no later
\* step (a data frame, a duplicate, a gap, the close, a later sentinel of the same
\* name with another size) changes the size of an assembler that exists
C24_SizeFixed ==
    [][/\ mode = "dump"
          => IF SurfacesSentinel /\ fail' = "none"
             THEN ~curr'.nil /\ curr'.Size = Declared
             ELSE (~curr.nil /\ ~curr'.nil) => curr'.Size = curr.Size
       /\ mode \in BufModes
          => /\ \A nm \in DOMAIN buffer :
                   nm \in DOMAIN buffer' /\ buffer'[nm].Size = buffer[nm].Size
             /\ \A nm \in DOMAIN buffer' \ DOMAIN buffer :
                   SurfacesSentinel /\ nm = name' /\ buffer'[nm].Size = Declared]_vars

\* a file declared with 124 bytes has taken a data frame and then a sentinel of
\* its name that declares 62 bytes, and is still of 124 bytes
C24_Witness ==
    /\ mode = "buffer"
    /\ hist = <<FrameExt(FX), FrameExt(F1), FrameExt(FX2)>>
    /\ name = NameX
    /\ buffer[NameX].Size = 2 * PayloadSize

\* C25: over archive files of finitely many frames the loops of dumpFiles and of
\* listBlocks stop: the stream ends, or an error or a panic ends the loop
C25_Terminates == <>(pc \in {"done", "error", "panic"})

\* the report loop has stopped at the end of the stream after a sentinel, an idle
\* frame and a data frame read from two archive files
C25_Witness ==
    /\ mode = "list"
    /\ several
    /\ pc = "done"
    /\ f_file = NoFile
    /\ f_ps = <<>>
    /\ Len(out) = 2
    /\ \E i \in DOMAIN hist : hist[i] = FrameExt(FIdle)
    /\ Len(SelectSeq(hist, LAMBDA h : h.k = "eof")) = 2

\* C26: the count Write returns for a data frame dumpFiles has written is the
\* number of payload bytes written, the growth of the byte count; it is zero for
\* a duplicate
C26_ReturnsWritten ==
    [][\A d \in Pool :
          (/\ mode = "dump" /\ Reads(d) /\ IsData(d) /\ ~curr.nil
           /\ fail' = "none")
          => LET w == Write(curr, fs[curr.Name], Bytes(d), "none")
             IN  /\ w.n = curr'.Bytes - curr.Bytes
                 /\ d.c = curr.last => w.n = 0]_vars

\* C27: while dumpFiles writes a logical file, a byte written to the output file
\* stays at its offset with its value through every later data frame (written,
\* duplicate or after a gap), and the file does not end before the end of the
\* last payload written
C27_WrittenStays ==
    [][(/\ mode = "dump" /\ ~curr.nil /\ ~curr'.nil /\ ~SurfacesSentinel
        /\ pc' = "run" /\ fail' = "none")
       => LET f == fs[curr.Name]
              g == fs'[curr.Name]
          IN  /\ \A o \in DOMAIN f.data :
                    o \in DOMAIN g.data /\ g.data[o] = f.data[o]
              /\ g.size >= curr'.pos]_vars

\* C28: at most one archive file is open at any time, and none is left open once
\* the stream has signalled its end
C28_OneSourceOpen ==
    /\ Cardinality(opened) <= 1
    /\ pc = "done" => opened = {}

====
